---- MODULE Spec2Model ----
(***************************************************************************)
(* QAOA for MaxCut (05_QAOA.ipynb): the classical cost function, the       *)
(* expectation value of a measured distribution, the QAOA circuit builder  *)
(* and the optimisation loop with its trace expval_list.                    *)
(*                                                                         *)
(* Python values are modelled as follows.                                  *)
(*   - a bit-string is a sequence over {"0","1"}; Python index i is TLA+   *)
(*     index i+1;                                                          *)
(*   - a graph is a record [nodes, edges], nodes = <<0,..,n-1>>, edges a   *)
(*     sequence of pairs <<a,b>> (the list of tuples);                     *)
(*   - a counts dictionary is a function from the observed bit-strings to  *)
(*     their integer counts;                                               *)
(*   - a float that is the quotient of two integers is the exact rational  *)
(*     [num, den] in lowest terms with den > 0.                            *)
(***************************************************************************)
EXTENDS Integers, Sequences, FiniteSets

(* ------------------------------ bounds --------------------------------- *)
MaxNodes == 3
MaxEdges == 2
MaxObserved == 2
MaxCount == 2
MaxLayers == 2
MaxIter == 2
MaxHandCalls == 2

(* ------------------------- values and helpers -------------------------- *)
Bits == {"0", "1"}

BitStrings(n) == [1..n -> Bits]

Abs(x) == IF x < 0 THEN -x ELSE x

RECURSIVE GCD(_, _)
GCD(a, b) == IF b = 0 THEN a ELSE GCD(b, a % b)

\* The quotient n/d of two integers, d > 0, as Python's true division gives it.
Rat(n, d) ==
    LET k == GCD(Abs(n), d)
    IN  [num |-> n \div k, den |-> d \div k]

Zero == Rat(0, 1)

\* range(n) as a sequence
Range(n) == [k \in 1..n |-> k - 1]

(* ------------------------------ the graph ------------------------------ *)
nodes == <<0, 1, 2, 3>>
edges == << <<0, 1>>, <<1, 2>>, <<2, 3>>, <<0, 3>> >>
cycle_graph == [nodes |-> nodes, edges |-> edges]

EdgePairs(n) == {p \in (0..(n-1)) \X (0..(n-1)) : p[1] # p[2]}

GraphsOn(n, m) ==
    {[nodes |-> Range(n), edges |-> es] :
        es \in UNION {[1..k -> EdgePairs(n)] : k \in 0..m}}

Graphs == (UNION {GraphsOn(n, MaxEdges) : n \in 1..MaxNodes}) \cup {cycle_graph}

\* The graphs a distribution is reduced over by a direct call of get_expval:
\* the graphs on two nodes and the notebook's 4-cycle.
ShotGraphs == GraphsOn(2, MaxEdges) \cup {cycle_graph}

NumNodes(g) == Len(g.nodes)

(* --------------------------- the cost function ------------------------- *)
\* bitstring[::-1]
Reverse_identity(s) == s

Reverse_rotated(s) == [k \in 1..Len(s) |-> s[(k % Len(s)) + 1]]

Reverse(s) == [k \in 1..Len(s) |-> s[Len(s) + 1 - k]]

maxcut_cost_plus(s, g) ==
    LET rev == Reverse(s)
        value[k \in 0..Len(g.edges)] ==
            IF k = 0 THEN 0
            ELSE LET i == g.edges[k][1]
                     j == g.edges[k][2]
                 IN  IF rev[i + 1] # rev[j + 1]
                     THEN value[k - 1] + 1
                     ELSE value[k - 1]
    IN  value[Len(g.edges)]

maxcut_cost_equal(s, g) ==
    LET rev == Reverse(s)
        value[k \in 0..Len(g.edges)] ==
            IF k = 0 THEN 0
            ELSE LET i == g.edges[k][1]
                     j == g.edges[k][2]
                 IN  IF rev[i + 1] = rev[j + 1]
                     THEN value[k - 1] + (-1)
                     ELSE value[k - 1]
    IN  value[Len(g.edges)]

maxcut_cost_greater(s, g) ==
    LET rev == Reverse(s)
        value[k \in 0..Len(g.edges)] ==
            IF k = 0 THEN 0
            ELSE LET i == g.edges[k][1]
                     j == g.edges[k][2]
                 IN  IF rev[i + 1] = "1" /\ rev[j + 1] = "0"
                     THEN value[k - 1] + (-1)
                     ELSE value[k - 1]
    IN  value[Len(g.edges)]

\* def maxcut_cost(bitstring, graph): the loop over graph['edges'], value[k]
\* being the accumulator after the first k edges.
maxcut_cost(s, g) ==
    LET rev == Reverse(s)
        value[k \in 0..Len(g.edges)] ==
            IF k = 0 THEN 0
            ELSE LET i == g.edges[k][1]
                     j == g.edges[k][2]
                 IN  IF rev[i + 1] # rev[j + 1]
                     THEN value[k - 1] + (-1)
                     ELSE value[k - 1]
    IN  value[Len(g.edges)]

(* ------------------------- the expectation value ----------------------- *)
\* The sum of f over S.
RECURSIVE SetSum(_, _)
SetSum(f, S) ==
    IF S = {} THEN 0
    ELSE LET x == CHOOSE y \in S : TRUE IN f[x] + SetSum(f, S \ {x})

\* The number of trials a counts dictionary records.
TotalCount(c) == SetSum(c, DOMAIN c)

\* The subsets of S with at most k elements.
RECURSIVE SubsetsUpTo(_, _)
SubsetsUpTo(S, k) ==
    IF k = 0 THEN {{}}
    ELSE LET smaller == SubsetsUpTo(S, k - 1)
         IN  smaller \cup {T \cup {x} : T \in smaller, x \in S}

\* The counts dictionaries over n-bit strings: at most MaxObserved keys, each
\* with a count in 0..MaxCount.
CountsOn(n) ==
    UNION {[S -> 0..MaxCount] : S \in SubsetsUpTo(BitStrings(n), MaxObserved)}

\* One pass of "for bitstring, count in counts.items()" over the keys in S:
\* the pair <<cost, total_shots>> the loop leaves.
RECURSIVE items_loop(_, _, _)
items_loop(c, S, g) ==
    IF S = {} THEN <<0, 0>>
    ELSE LET b == CHOOSE x \in S : TRUE
             rest == items_loop(c, S \ {b}, g)
         IN  <<rest[1] + maxcut_cost(b, g) * c[b], rest[2] + c[b]>>

RECURSIVE items_loop_unweighted(_, _, _)
items_loop_unweighted(c, S, g) ==
    IF S = {} THEN <<0, 0>>
    ELSE LET b == CHOOSE x \in S : TRUE
             rest == items_loop_unweighted(c, S \ {b}, g)
         IN  <<rest[1] + maxcut_cost(b, g), rest[2] + c[b]>>

get_expval_unweighted(c, g) ==
    LET acc == items_loop_unweighted(c, DOMAIN c, g)
    IN  IF acc[2] = 0
        THEN [err |-> "ZeroDivisionError", val |-> Zero]
        ELSE [err |-> "none", val |-> Rat(acc[1], acc[2])]

get_expval_per_key(c, g) ==
    LET acc == items_loop(c, DOMAIN c, g)
    IN  IF Cardinality(DOMAIN c) = 0
        THEN [err |-> "ZeroDivisionError", val |-> Zero]
        ELSE [err |-> "none", val |-> Rat(acc[1], Cardinality(DOMAIN c))]

\* def get_expval(counts, graph): cost/total_shots raises ZeroDivisionError
\* when total_shots is 0 (val is then not a returned value).
get_expval(c, g) ==
    LET acc == items_loop(c, DOMAIN c, g)
    IN  IF acc[2] = 0
        THEN [err |-> "ZeroDivisionError", val |-> Zero]
        ELSE [err |-> "none", val |-> Rat(acc[1], acc[2])]

(* --------------------------- the QAOA circuit -------------------------- *)
\* Angles are counted in thousandths of a radian; the initial guess of
\* optimize_QAOA is 3.147.
gamma_0 == 3147
beta_0 == 3147


\* One instruction of a QuantumCircuit.
Instruction(name, qubits, clbits, params) ==
    [name |-> name, qubits |-> qubits, clbits |-> clbits, params |-> params]

\* qc.barrier(): one barrier across all qubits
barrier(n) == Instruction("barrier", Range(n), <<>>, <<>>)

\* qc.h(range(num_qubits))
h_all(n) == [k \in 1..n |-> Instruction("h", <<k - 1>>, <<>>, <<>>)]

\* qc.rx(theta, range(num_qubits))
rx_all(theta, n) ==
    [k \in 1..n |-> Instruction("rx", <<k - 1>>, <<>>, <<Rat(theta, 1)>>)]

\* qc.measure(range(num_qubits), range(num_qubits))
measure_all(n) ==
    [k \in 1..n |-> Instruction("measure", <<k - 1>>, <<k - 1>>, <<>>)]

cost_block_on_control(ab, gamma, n) ==
    << barrier(n),
       Instruction("cx", <<ab[1], ab[2]>>, <<>>, <<>>),
       Instruction("rz", <<ab[1]>>, <<>>, <<Rat(gamma, 2)>>),
       Instruction("cx", <<ab[1], ab[2]>>, <<>>, <<>>) >>

\* The body of "for ab in graph['edges']": barrier, cx, rz(0.5*gamma), cx.
cost_block(ab, gamma, n) ==
    << barrier(n),
       Instruction("cx", <<ab[1], ab[2]>>, <<>>, <<>>),
       Instruction("rz", <<ab[2]>>, <<>>, <<Rat(gamma, 2)>>),
       Instruction("cx", <<ab[1], ab[2]>>, <<>>, <<>>) >>

\* The instructions the first k passes of the edge loop append in one layer.
RECURSIVE cost_hamiltonian(_, _, _)
cost_hamiltonian(g, gamma, k) ==
    IF k = 0 THEN <<>>
    ELSE cost_hamiltonian(g, gamma, k - 1)
            \o cost_block(g.edges[k], gamma, NumNodes(g))

layers_loop_first_angles(g, gm, bt, k) ==
    LET body[i \in 0..k] ==
            IF i = 0 THEN <<>>
            ELSE body[i - 1]
                    \o cost_hamiltonian(g, gm[1], Len(g.edges))
                    \o <<barrier(NumNodes(g))>>
                    \o rx_all(bt[1], NumNodes(g))
    IN  body[k]

\* The instructions the first k passes of "for i in range(layers)" append.
layers_loop(g, gm, bt, k) ==
    LET body[i \in 0..k] ==
            IF i = 0 THEN <<>>
            ELSE body[i - 1]
                    \o cost_hamiltonian(g, gm[i], Len(g.edges))
                    \o <<barrier(NumNodes(g))>>
                    \o rx_all(bt[i], NumNodes(g))
    IN  body[k]

\* def Build_QAOA(graph, gammas, betas, layers): the instruction list of qc.
Build_QAOA(g, gm, bt, L) ==
    h_all(NumNodes(g)) \o layers_loop(g, gm, bt, L) \o measure_all(NumNodes(g))

\* The cost angles of length L handed to Build_QAOA: the same angle in every
\* layer, or a different angle in every layer.
GammaLists(L) == {[k \in 1..L |-> gamma_0], [k \in 1..L |-> k]}

\* The mixer angles of length L handed to Build_QAOA, the varying ones
\* different from every cost angle.
BetaLists(L) == {[k \in 1..L |-> beta_0], [k \in 1..L |-> L + k]}

(* ------------------ the inputs of the notebook's cells ----------------- *)
\* The partition 0101 of the 4-cycle and the partition 0000.
alternating == <<"0", "1", "0", "1">>

uniform == <<"0", "0", "0", "0">>

\* The bit-strings the cells of a session hand to maxcut_cost.
CellStrings == {alternating, uniform}

NoCounts == [b \in {} |-> 0]

\* The counts of one shot that gave the bit-string s.
OneShot(s) == [b \in {s} |-> 1]

\* The counts the cells of a session hand to get_expval.
CellCounts == {OneShot(alternating), NoCounts}

\* The angles the cells of a session hand to Build_QAOA with layers = 1:
\* gammas = [1.0], betas = [2.0], and the initial guess.
CellAngles ==
    {[gammas |-> <<1000>>, betas |-> <<2000>>],
     [gammas |-> <<gamma_0>>, betas |-> <<beta_0>>]}

\* The bit-strings the backend observes in a session: a maximum cut of the
\* 4-cycle and a cut of two edges.
BackendStrings == {alternating, <<"0", "0", "0", "1">>}

\* The graph of one edge.
pair_graph == [nodes |-> <<0, 1>>, edges |-> << <<0, 1>> >>]

(* -------------------------- the optimisation loop ---------------------- *)
\* The shots arguments of get_QAOA_func: none, one, and two, which gives
\* averages that are no bit-string's cost.
ShotCounts == {0, 1, 2}

\* The layers arguments of get_QAOA_func called for one call of its closure.
LayerCounts == {1, 2}

\* num_layers = 3
num_layers == 3

\* The names the notebook binds the result of optimize_QAOA to.
RunNames == {"result", "result_1", "result_2"}

\* num_layers_2 = 1
num_layers_2 == 1

\* layers=1 for result, layers=num_layers for result_1, and
\* layers=num_layers_2 for result_2; the cells slice the vector of the
\* result and build the circuit of the readout with the same number
layers_of(nm) ==
    IF nm = "result" THEN 1
    ELSE IF nm = "result_1" THEN num_layers ELSE num_layers_2

\* method='COBYLA' for result and result_1, optimizer_method = 'Powell' for
\* result_2
method_of(nm) == IF nm = "result_2" THEN "Powell" ELSE "COBYLA"

\* The shots arguments of the runs of a session.
RunShots == {0, 1}

\* backend.run(qc, shots=sh).result().get_counts(): strings of S with their
\* positive counts, sh trials in all; no key when sh = 0.
BackendCounts(S, sh) ==
    {c \in UNION {[T -> 1..sh] : T \in SubsetsUpTo(S, sh)} :
        TotalCount(c) = sh}

\* RunOutcomes(S)[sh]: what get_expval makes of the counts the backend may
\* return for a circuit of the notebook's graph run with sh shots, when the
\* backend observes strings of S.
RunOutcomes(S) ==
    [sh \in ShotCounts |->
        {get_expval(c, cycle_graph) : c \in BackendCounts(S, sh)}]

\* angles[:layers] and angles[layers:]
SliceTo(x, L) == SubSeq(x, 1, IF L < Len(x) THEN L ELSE Len(x))

SliceFrom_start(x, L) == x

SliceFrom(x, L) == SubSeq(x, L + 1, Len(x))

\* x0 = [gamma_0 for i in range(layers)] + [beta_0 for i in range(layers)]
x0(L) == [k \in 1..L |-> gamma_0] \o [k \in 1..L |-> beta_0]

\* The vector the minimizer proposes after k evaluations: 2L angles, all
\* different and different from those of every other step.
Proposal(L, k) == [i \in 1..(2 * L) |-> (k - 1) * 2 * L + i]

clear_skipped(trace) == trace

\* expval_list.clear()
clear(trace) == <<>>

append_twice(trace, expval) == Append(Append(trace, expval), expval)

append_in_front(trace, expval) == <<expval>> \o trace

\* expval_list.append(expval)
append(trace, expval) == Append(trace, expval)

\* minimize is a function of scipy, a library the notebook imports; the
\* notebook holds none of its code.  The next two definitions and the
\* actions MinimizeNext and MinimizeReturn follow what the documentation of
\* scipy says of the arguments the notebook passes, and nothing here claims
\* more of the minimizer than that it calls the objective for one vector at a
\* time and returns an OptimizeResult.
\*
\* options={"maxiter": iterations}: the minimizer of method m may go on after
\* n evaluations and k iterations.  COBYLA counts the evaluations against
\* maxiter; Powell counts its iterations, each of which evaluates the
\* objective one or more times.
evaluations_left(m, n, k, maxiter) ==
    IF m = "COBYLA" THEN n < maxiter ELSE k < maxiter

\* An iteration of the minimizer of method m can have ended with the n-th
\* evaluation: Powell evaluates x0 before its first iteration.
iteration_ends(m, n) == m # "COBYLA" /\ n >= 2

run_QAOA_trace_always(trace, r) == append(trace, r.val)

\* expval = get_expval(counts, graph); expval_list.append(expval): the trace
\* after run_QAOA got the outcome r from get_expval; an exception raised
\* there leaves run_QAOA before the append.
run_QAOA_trace(trace, r) ==
    IF r.err = "none" THEN append(trace, r.val) ELSE trace

RatLess(a, b) == a.num * b.den < b.num * a.den

NoResult == [x |-> <<>>, fun |-> Zero, success |-> FALSE, nfev |-> 0]

\* What minimize returns: the best vector b.x and its value b.fun, whether
\* the tolerance was met, and the number n of evaluations.
minimize_result(b, converged, n) ==
    [x |-> b.x, fun |-> b.fun, success |-> converged, nfev |-> n]

return_results_if_success(r) == IF r.success THEN r ELSE NoResult

\* return results
return_results(r) == r

\* No closure: optimize_QAOA is not under way.
NoFunc == [shots |-> 0, layers |-> 0]

\* return run_QAOA: the closure, with the shots and layers it captured.
get_QAOA_func(sh, L) == [shots |-> sh, layers |-> L]

\* The closures the cells of a session ask get_QAOA_func for.
CellClosures == {get_QAOA_func(2, 1), get_QAOA_func(1, 2)}

(* ------------------------- the solution readout ------------------------ *)
\* The orders in which a dictionary with the keys S may hold them.
Orders(S) ==
    {f \in [1..Cardinality(S) -> S] :
        \A i, j \in 1..Cardinality(S) : f[i] = f[j] => i = j}

max_key_least(c, order) ==
    LET best[k \in 1..Len(order)] ==
            IF k = 1 THEN order[1]
            ELSE IF c[order[k]] < c[best[k - 1]]
                 THEN order[k]
                 ELSE best[k - 1]
    IN  best[Len(order)]

\* max(counts, key=counts.get) for a dictionary that is not empty and holds
\* its keys in the given order: the first key no later key's count exceeds.
max_key(c, order) ==
    LET best[k \in 1..Len(order)] ==
            IF k = 1 THEN order[1]
            ELSE IF c[order[k]] > c[best[k - 1]]
                 THEN order[k]
                 ELSE best[k - 1]
    IN  best[Len(order)]

readout_reverse_skipped(s) == s

\* most_probable_solution[::-1]
readout_reverse(s) == Reverse(s)

\* [i for i, value in enumerate(solution) if value == bit]
indices_of(solution, bit) ==
    LET found[k \in 0..Len(solution)] ==
            IF k = 0 THEN <<>>
            ELSE IF solution[k] = bit
                 THEN Append(found[k - 1], k - 1)
                 ELSE found[k - 1]
    IN  found[Len(solution)]

\* The counts the backend may give for the circuit of g: observed strings
\* with positive counts.
ObservedCounts(g) ==
    UNION {[S -> 1..MaxCount] :
              S \in SubsetsUpTo(BitStrings(NumNodes(g)), MaxObserved) \ {{}}}

\* What the backend answers the readout: counts, or an exception.
Answer(c) == [err |-> "none", counts |-> c]

Failure == [err |-> "BackendError", counts |-> NoCounts]

\* The answers of the backend to the readout of a session.
CellAnswers == {Answer(OneShot(alternating)), Failure}

(* ------------------------------- state --------------------------------- *)
VARIABLES
    fn,          \* the function or cell the session ran last ("none" before
                 \* any); the next eleven variables record that call
    graph,       \* its graph argument
    bitstring,   \* maxcut_cost's bitstring argument
    counts,      \* the counts handed to get_expval or given to the readout
    value,       \* what maxcut_cost returned
    exp_value,   \* what get_expval returned
    err,         \* the exception the call raised, "none" if it returned
    layers,      \* the layers argument of the last call of Build_QAOA
    gammas,      \* the cost angles handed to Build_QAOA
    betas,       \* the mixer angles handed to Build_QAOA
    qc,          \* the circuit Build_QAOA returned
    results,     \* what optimize_QAOA returned
    pc,          \* where control is: "toplevel" (between cells), or inside
                 \* minimize ("minimizing": a vector waits to be evaluated,
                 \* "evaluated": run_QAOA has returned)
    target,      \* the name the cell under way binds the result to
    func,        \* the closure optimize_QAOA got from get_QAOA_func
    method,      \* optimize_QAOA's method
    iterations,  \* optimize_QAOA's iterations (maxiter)
    angles,      \* the parameter vector the minimizer holds
    nfev,        \* the objective calls of this run that have returned
    nit,         \* the iterations of this run that have ended
    best,        \* the lowest value so far and its vector
    expval_list, \* the global trace
    held,        \* the closures get_QAOA_func has returned to cells
    optimal_gammas,  \* result.x[:1], unbound (empty) before result is
    optimal_betas,   \* result.x[1:]
    optimal_gammas_1,  \* result_1.x[:num_layers]
    optimal_betas_1,   \* result_1.x[num_layers:]
    optimal_gammas_2,  \* result_2.x[:num_layers_2]
    optimal_betas_2,   \* result_2.x[num_layers_2:]
    most_probable_solution,    \* the notebook variables of these names,
    most_probable_solution_1,  \* unbound (empty) before their readout
    most_probable_solution_2,
    indices_0,   \* the nodes of the first subgraph
    indices_1,   \* the nodes of the second subgraph
    since_clear, \* history: the values run_QAOA has returned since the trace
                 \* was last emptied
    dropped,     \* history: the last step was a call of get_QAOA_func that
                 \* found entries in the trace
    executed,    \* history: the circuit executions run_QAOA has asked of the
                 \* backend since the trace was last emptied
    started_by,  \* history: who made the latest call of get_QAOA_func, a
                 \* "cell" or "optimize_QAOA" ("none" before any)
    outcomes,    \* the table RunOutcomes, computed once and never changed
    input        \* the inputs of the session: the cells it runs with the
                 \* arguments they pass, or the one call it makes

vars == <<fn, graph, bitstring, counts, value, exp_value, err,
          layers, gammas, betas, qc, results,
          pc, target, func, method, iterations, angles, nfev, nit, best,
          expval_list, held, optimal_gammas, optimal_betas,
          optimal_gammas_1, optimal_betas_1, optimal_gammas_2,
          optimal_betas_2, most_probable_solution,
          most_probable_solution_1, most_probable_solution_2,
          indices_0, indices_1,
          since_clear, dropped, executed, started_by, outcomes, input>>

\* The locals of a call of optimize_QAOA.
runVars == <<pc, target, func, method, iterations, angles, nfev, nit, best>>

\* The trace and its history.
traceVars == <<expval_list, since_clear, executed, started_by>>

\* The optimal angles of result_1 and result_2.
laterAngles == <<optimal_gammas_1, optimal_betas_1,
                 optimal_gammas_2, optimal_betas_2>>

\* The solutions of the three readouts.
solutionVars == <<most_probable_solution, most_probable_solution_1,
                  most_probable_solution_2>>

\* The names the cells bind.
bookVars == <<held, optimal_gammas, optimal_betas, laterAngles,
              solutionVars, indices_0, indices_1>>

NoBest == [x |-> <<>>, fun |-> Zero]

\* The sessions of the notebook are described by the cells they run and the
\* arguments these pass: the names the results of optimize_QAOA are bound
\* to, with its shots and iterations arguments; the closures cells ask
\* get_QAOA_func for; the arguments of the direct calls of maxcut_cost
\* (strings), get_expval (counts) and Build_QAOA (angles); and what the
\* backend answers the readouts.  In every session any cell may follow any
\* other, any number of times.
\*
\* A session on one result: its optimisation, readout and index cells, a
\* closure of one shot and two layers that cells call by hand, and the
\* direct calls.
OneResult(nm) ==
    [f |-> "session", names |-> {nm}, shots |-> RunShots,
     iterations |-> 1..MaxIter, closures |-> {get_QAOA_func(1, 2)},
     strings |-> CellStrings, counts |-> CellCounts, angles |-> CellAngles,
     answers |-> CellAnswers]

\* A session on all three results, each optimised with shots=1 and
\* iterations=1, with their readout and index cells.
ThreeResults ==
    [f |-> "session", names |-> RunNames, shots |-> {1},
     iterations |-> {1}, closures |-> {},
     strings |-> {}, counts |-> {}, angles |-> {},
     answers |-> CellAnswers]

\* A session of cells that ask get_QAOA_func for closures and call them by
\* hand: no optimisation.
HandCalls ==
    [f |-> "session", names |-> {}, shots |-> {},
     iterations |-> {}, closures |-> CellClosures,
     strings |-> {}, counts |-> {}, angles |-> {},
     answers |-> {}]

Sessions == {OneResult(nm) : nm \in RunNames} \cup {ThreeResults, HandCalls}

\* No result is bound.
Unbound == [nm \in RunNames |-> <<>>]

\* A state between cells in which f was run last, the cells hold the
\* closures h, x[nm] is the vector of the result bound to nm, the trace is
\* trace and an optimize_QAOA that has just returned gave r.
Between(f, h, x, trace, r, table) ==
    /\ fn = f
    /\ graph = cycle_graph
    /\ bitstring = <<>>
    /\ counts = NoCounts
    /\ value = 0
    /\ exp_value = Zero
    /\ err = "none"
    /\ layers = 0
    /\ gammas = <<>>
    /\ betas = <<>>
    /\ qc = <<>>
    /\ results = r
    /\ pc = "toplevel"
    /\ target = "none"
    /\ func = NoFunc
    /\ method = "none"
    /\ iterations = 0
    /\ angles = <<>>
    /\ nfev = 0
    /\ nit = 0
    /\ best = NoBest
    /\ expval_list = trace
    /\ held = h
    /\ optimal_gammas = SliceTo(x["result"], 1)
    /\ optimal_betas = SliceFrom(x["result"], 1)
    /\ optimal_gammas_1 = SliceTo(x["result_1"], num_layers)
    /\ optimal_betas_1 = SliceFrom(x["result_1"], num_layers)
    /\ optimal_gammas_2 = SliceTo(x["result_2"], num_layers_2)
    /\ optimal_betas_2 = SliceFrom(x["result_2"], num_layers_2)
    /\ most_probable_solution = <<>>
    /\ most_probable_solution_1 = <<>>
    /\ most_probable_solution_2 = <<>>
    /\ indices_0 = <<>>
    /\ indices_1 = <<>>
    /\ since_clear = trace
    /\ dropped = FALSE
    /\ executed = Len(trace)
    /\ started_by = (IF f = "get_QAOA_func" THEN "cell"
                     ELSE IF f = "optimize_QAOA" THEN "optimize_QAOA"
                     ELSE "none")
    /\ outcomes = table

\* The session before its first call: graph is bound and expval_list = [].
Init ==
    /\ Between("none", {}, Unbound, <<>>, NoResult,
               RunOutcomes(BackendStrings))
    /\ input \in Sessions

(* ---------------------- the notebook's functions ----------------------- *)
\* The record of a call that takes no circuit and returns no result of
\* optimize_QAOA.
Called(f, g, s, c, v, e, x) ==
    /\ fn' = f
    /\ graph' = g
    /\ bitstring' = s
    /\ counts' = c
    /\ value' = v
    /\ exp_value' = e
    /\ err' = x
    /\ layers' = 0
    /\ gammas' = <<>>
    /\ betas' = <<>>
    /\ qc' = <<>>
    /\ results' = NoResult

\* value = maxcut_cost(s, g)
DoMaxcutCost(s, g) ==
    /\ Called("maxcut_cost", g, s, NoCounts, maxcut_cost(s, g), Zero, "none")
    /\ dropped' = FALSE
    /\ UNCHANGED <<runVars, traceVars, bookVars, outcomes, input>>

\* exp_value = get_expval(c, g)
DoGetExpval(c, g) ==
    LET r == get_expval(c, g)
    IN  /\ Called("get_expval", g, <<>>, c, 0, r.val, r.err)
        /\ dropped' = FALSE
        /\ UNCHANGED <<runVars, traceVars, bookVars, outcomes, input>>

\* qc = Build_QAOA(g, gm, bt, L)
DoBuildQAOA(g, gm, bt, L) ==
    /\ fn' = "Build_QAOA"
    /\ graph' = g
    /\ layers' = L
    /\ gammas' = gm
    /\ betas' = bt
    /\ qc' = Build_QAOA(g, gm, bt, L)
    /\ bitstring' = <<>>
    /\ counts' = NoCounts
    /\ value' = 0
    /\ exp_value' = Zero
    /\ err' = "none"
    /\ results' = NoResult
    /\ dropped' = FALSE
    /\ UNCHANGED <<runVars, traceVars, bookVars, outcomes, input>>

\* The angles the readout of the result bound to nm reads.
gammas_of(nm) ==
    IF nm = "result" THEN optimal_gammas
    ELSE IF nm = "result_1" THEN optimal_gammas_1 ELSE optimal_gammas_2

betas_of(nm) ==
    IF nm = "result" THEN optimal_betas
    ELSE IF nm = "result_1" THEN optimal_betas_1 ELSE optimal_betas_2

\* The cell of the result bound to nm binds its optimal angles to the two
\* slices of the vector x of that result and leaves the other four names as
\* they are.
BindAngles(nm, x) ==
    /\ optimal_gammas' =
          IF nm = "result" THEN SliceTo(x, 1) ELSE optimal_gammas
    /\ optimal_betas' =
          IF nm = "result" THEN SliceFrom(x, 1) ELSE optimal_betas
    /\ optimal_gammas_1' =
          IF nm = "result_1" THEN SliceTo(x, num_layers)
          ELSE optimal_gammas_1
    /\ optimal_betas_1' =
          IF nm = "result_1" THEN SliceFrom(x, num_layers)
          ELSE optimal_betas_1
    /\ optimal_gammas_2' =
          IF nm = "result_2" THEN SliceTo(x, num_layers_2)
          ELSE optimal_gammas_2
    /\ optimal_betas_2' =
          IF nm = "result_2" THEN SliceFrom(x, num_layers_2)
          ELSE optimal_betas_2

\* most_probable_solution, most_probable_solution_1 or
\* most_probable_solution_2
solution_of(nm) ==
    IF nm = "result" THEN most_probable_solution
    ELSE IF nm = "result_1" THEN most_probable_solution_1
    ELSE most_probable_solution_2

\* The readout of the result bound to nm binds s to its solution and leaves
\* the other two solutions as they are.
BindSolution(nm, s) ==
    /\ most_probable_solution' =
          IF nm = "result" THEN s ELSE most_probable_solution
    /\ most_probable_solution_1' =
          IF nm = "result_1" THEN s ELSE most_probable_solution_1
    /\ most_probable_solution_2' =
          IF nm = "result_2" THEN s ELSE most_probable_solution_2

\* The names of the cells of the readout of the result bound to nm.
readout_cell(nm) ==
    IF nm = "result" THEN "most_probable_solution"
    ELSE IF nm = "result_1" THEN "most_probable_solution_1"
    ELSE "most_probable_solution_2"

indices_cell(nm) ==
    IF nm = "result" THEN "indices"
    ELSE IF nm = "result_1" THEN "indices of result_1"
    ELSE "indices of result_2"

\* The readout cell of the result bound to nm, for graph g: it builds the
\* circuit of the optimal angles of that result, which must be bound, with
\* layers=1, layers=num_layers or layers=num_layers_2, and has the backend
\* execute it; of the counts the backend answers it takes the most frequent
\* bit-string.  An exception of the backend leaves the cell before the counts
\* and the solution are bound.
TakeMostProbable(nm, g, answer) ==
    /\ pc = "toplevel"
    /\ gammas_of(nm) # <<>>
    /\ fn' = readout_cell(nm)
    /\ graph' = g
    /\ layers' = layers_of(nm)
    /\ gammas' = gammas_of(nm)
    /\ betas' = betas_of(nm)
    /\ qc' = Build_QAOA(g, gammas_of(nm), betas_of(nm), layers_of(nm))
    /\ err' = answer.err
    /\ counts' = answer.counts
    /\ IF answer.err = "none"
       THEN \E order \in Orders(DOMAIN answer.counts) :
               BindSolution(nm, max_key(answer.counts, order))
       ELSE UNCHANGED solutionVars
    /\ bitstring' = <<>>
    /\ value' = 0
    /\ exp_value' = Zero
    /\ results' = NoResult
    /\ dropped' = FALSE
    /\ UNCHANGED <<runVars, traceVars, held, optimal_gammas, optimal_betas,
                   laterAngles, indices_0, indices_1, outcomes, input>>

\* The cell that reverses the solution of the result bound to nm, which must
\* be bound, and lists the nodes of the two subgraphs in indices_0 and
\* indices_1.  It reads no counts and no graph.
ReverseAndSplit(nm) ==
    /\ pc = "toplevel"
    /\ solution_of(nm) # <<>>
    /\ fn' = indices_cell(nm)
    /\ BindSolution(nm, readout_reverse(solution_of(nm)))
    /\ indices_0' = indices_of(readout_reverse(solution_of(nm)), "0")
    /\ indices_1' = indices_of(readout_reverse(solution_of(nm)), "1")
    /\ bitstring' = <<>>
    /\ value' = 0
    /\ exp_value' = Zero
    /\ err' = "none"
    /\ layers' = 0
    /\ gammas' = <<>>
    /\ betas' = <<>>
    /\ qc' = <<>>
    /\ results' = NoResult
    /\ dropped' = FALSE
    /\ UNCHANGED <<graph, counts, runVars, traceVars, held, optimal_gammas,
                   optimal_betas, laterAngles, outcomes, input>>

\* most_probable_solution = most_probable_solution[::-1], indices_0,
\* indices_1, and the same cells for most_probable_solution_1 and
\* most_probable_solution_2
ExtractIndices == \E nm \in RunNames : ReverseAndSplit(nm)

(* ----------------------- the cells of a session ------------------------ *)
\* The interpreter runs one cell at a time: no call of optimize_QAOA is
\* under way.
Outside == pc = "toplevel"

CallMaxcutCost ==
    /\ Outside
    /\ \E s \in input.strings : DoMaxcutCost(s, cycle_graph)

CallGetExpval ==
    /\ Outside
    /\ \E c \in input.counts : DoGetExpval(c, cycle_graph)

CallBuildQAOA ==
    /\ Outside
    /\ \E a \in input.angles :
          DoBuildQAOA(cycle_graph, a.gammas, a.betas, 1)

MostProbableSolution ==
    \E nm \in RunNames, answer \in input.answers :
        TakeMostProbable(nm, cycle_graph, answer)

\* expval_list = []: the cell that creates the trace, run again, binds the
\* name to a new empty list, to which the closures append from then on.
CreateExpvalList ==
    /\ Outside
    /\ Called("expval_list", cycle_graph, <<>>, NoCounts, 0, Zero, "none")
    /\ expval_list' = <<>>
    /\ since_clear' = <<>>
    /\ executed' = 0
    /\ dropped' = FALSE
    /\ UNCHANGED <<runVars, bookVars, started_by, outcomes, input>>

(* ---------------------- get_QAOA_func and run_QAOA --------------------- *)
\* One call run_QAOA(a) of the closure c: split, build, run, reduce, append,
\* return.  The execution of the circuit may fail, and get_expval raises on
\* counts of total zero; the call then appends nothing.
Evaluate(c, a) ==
    /\ LET L == c.layers
           gm == SliceTo(a, L)
           bt == SliceFrom(a, L)
       IN  /\ layers' = L
           /\ gammas' = gm
           /\ betas' = bt
           /\ qc' = Build_QAOA(cycle_graph, gm, bt, L)
    /\ \/ \E r \in outcomes[c.shots] :
             /\ expval_list' = run_QAOA_trace(expval_list, r)
             /\ since_clear' = IF r.err = "none"
                               THEN Append(since_clear, r.val)
                               ELSE since_clear
             /\ exp_value' = r.val
             /\ err' = r.err
       \/ /\ err' = "BackendError"
          /\ exp_value' = Zero
          /\ UNCHANGED <<expval_list, since_clear>>
    /\ executed' = executed + 1
    /\ graph' = cycle_graph
    /\ bitstring' = <<>>
    /\ counts' = NoCounts
    /\ value' = 0
    /\ dropped' = FALSE
    /\ UNCHANGED <<bookVars, started_by, outcomes, input>>

\* f = get_QAOA_func(graph, backend, shots, layers) in a cell: the trace is
\* cleared and the cell holds the closure, with those it held before.
GetQAOAFunc ==
    /\ Outside
    /\ \E c \in input.closures : held' = held \cup {c}
    /\ Called("get_QAOA_func", cycle_graph, <<>>, NoCounts, 0, Zero, "none")
    /\ expval_list' = clear(expval_list)
    /\ since_clear' = <<>>
    /\ executed' = 0
    /\ dropped' = (expval_list # <<>>)
    /\ started_by' = "cell"
    /\ UNCHANGED <<runVars, optimal_gammas, optimal_betas, laterAngles,
                   solutionVars, indices_0, indices_1, outcomes, input>>

\* A cell calls the closure c, which it holds, with the angles a; the model
\* stops once MaxHandCalls executions have been asked since the trace was
\* last emptied.
DoRunQAOA(c, a) ==
    /\ Outside
    /\ c \in held
    /\ executed < MaxHandCalls
    /\ Evaluate(c, a)
    /\ fn' = "run_QAOA"
    /\ results' = NoResult
    /\ UNCHANGED runVars

\* The cells of a session call a closure with the initial guess.
CallRunQAOA == \E c \in input.closures : DoRunQAOA(c, x0(c.layers))

(* ------------------------------ optimize_QAOA -------------------------- *)
\* A cell calls optimize_QAOA and binds what it returns to the name nm:
\* optimize_QAOA up to the call of minimize.  get_QAOA_func clears the trace
\* and returns run_QAOA, x0 is built, the minimizer holds x0.
OptimizeStart ==
    /\ Outside
    /\ \E nm \in input.names, sh \in input.shots, it \in input.iterations :
        /\ target' = nm
        /\ func' = get_QAOA_func(sh, layers_of(nm))
        /\ iterations' = it
        /\ method' = method_of(nm)
        /\ angles' = x0(layers_of(nm))
    /\ Called("optimize_QAOA", cycle_graph, <<>>, NoCounts, 0, Zero, "none")
    /\ expval_list' = clear(expval_list)
    /\ since_clear' = <<>>
    /\ executed' = 0
    /\ dropped' = (expval_list # <<>>)
    /\ nfev' = 0
    /\ nit' = 0
    /\ best' = NoBest
    /\ pc' = "minimizing"
    /\ started_by' = "optimize_QAOA"
    /\ UNCHANGED <<bookVars, outcomes, input>>

\* The minimizer calls run_QAOA(angles).  An exception leaves run_QAOA,
\* minimize, optimize_QAOA and the cell, whose name stays as it was; the
\* locals are gone.
RunQAOA ==
    /\ pc = "minimizing"
    /\ Evaluate(func, angles)
    /\ IF err' = "none"
       THEN /\ nfev' = nfev + 1
            /\ best' = IF nfev = 0 \/ RatLess(exp_value', best.fun)
                       THEN [x |-> angles, fun |-> exp_value']
                       ELSE best
            /\ pc' = "evaluated"
            /\ UNCHANGED <<target, func, method, iterations, angles, nit>>
       ELSE /\ pc' = "toplevel"
            /\ target' = "none"
            /\ func' = NoFunc
            /\ method' = "none"
            /\ iterations' = 0
            /\ angles' = <<>>
            /\ nfev' = 0
            /\ nit' = 0
            /\ best' = NoBest
    /\ UNCHANGED <<fn, results>>

\* The minimizer proposes the next vector, while the cap allows; an
\* iteration may have ended with the evaluation before.  The model stops
\* proposing after MaxIter evaluations.
MinimizeNext ==
    /\ pc = "evaluated"
    /\ nfev < MaxIter
    /\ \E ended \in BOOLEAN :
          /\ ended => iteration_ends(method, nfev)
          /\ nit' = IF ended THEN nit + 1 ELSE nit
          /\ evaluations_left(method, nfev, nit', iterations)
    /\ angles' = Proposal(func.layers, nfev)
    /\ pc' = "minimizing"
    /\ dropped' = FALSE
    /\ UNCHANGED <<fn, graph, bitstring, counts, value, exp_value, err,
                   layers, gammas, betas, qc, results, target, func, method,
                   iterations, nfev, best, traceVars, bookVars,
                   outcomes, input>>

\* minimize ends, converged or with the cap used up (Powell: at the end of
\* an iteration), optimize_QAOA returns its result and the cell binds it; the
\* cell of result also binds optimal_gammas = result.x[:1] and
\* optimal_betas = result.x[1:], the cell of result_1
\* optimal_gammas_1 = result_1.x[:num_layers] and optimal_betas_1, the cell
\* of result_2 optimal_gammas_2 = result_2.x[:num_layers_2] and
\* optimal_betas_2.  The locals of optimize_QAOA, of minimize and of the last
\* run_QAOA call are gone.
MinimizeReturn ==
    /\ pc = "evaluated"
    /\ method = "COBYLA" \/ iteration_ends(method, nfev)
    /\ \E converged \in BOOLEAN :
        /\ ~converged =>
              ~evaluations_left(method, nfev,
                                IF iteration_ends(method, nfev)
                                THEN nit + 1 ELSE nit,
                                iterations)
        /\ results' = return_results(minimize_result(best, converged, nfev))
    /\ BindAngles(target, results'.x)
    /\ pc' = "toplevel"
    /\ target' = "none"
    /\ func' = NoFunc
    /\ method' = "none"
    /\ iterations' = 0
    /\ angles' = <<>>
    /\ nfev' = 0
    /\ nit' = 0
    /\ best' = NoBest
    /\ exp_value' = Zero
    /\ layers' = 0
    /\ gammas' = <<>>
    /\ betas' = <<>>
    /\ qc' = <<>>
    /\ dropped' = FALSE
    /\ UNCHANGED <<fn, graph, bitstring, counts, value, err, traceVars,
                   held, solutionVars, indices_0, indices_1,
                   outcomes, input>>

Next ==
    \/ CallMaxcutCost
    \/ CallGetExpval
    \/ CallBuildQAOA
    \/ MostProbableSolution
    \/ ExtractIndices
    \/ CreateExpvalList
    \/ GetQAOAFunc
    \/ CallRunQAOA
    \/ OptimizeStart
    \/ RunQAOA
    \/ MinimizeNext
    \/ MinimizeReturn

Spec == Init /\ [][Next]_vars

(* ------------------- sessions that make one call ----------------------- *)
\* What the backend and get_expval may give for any strings of four bits.
AllOutcomes == RunOutcomes(BitStrings(NumNodes(cycle_graph)))

\* The vectors of the three results when each optimisation has returned its
\* initial guess.
InitialGuesses == [nm \in RunNames |-> x0(layers_of(nm))]

\* The graphs a session reads one result out on: every graph for result; for
\* result_1 and result_2, whose readouts are the same two cells again, the
\* graphs of at most one edge and the notebook's 4-cycle.
ReadoutGraphs(nm) ==
    IF nm = "result" THEN Graphs
    ELSE (UNION {GraphsOn(n, 1) : n \in 1..MaxNodes}) \cup {cycle_graph}

\* The graph of three nodes and the edge 0-1, which a bit-string and its
\* reversal cut differently.
one_edge_graph == [nodes |-> <<0, 1, 2>>, edges |-> << <<0, 1>> >>]

\* The graphs of the sessions that make several readouts.
SiteGraphs == {cycle_graph, one_edge_graph}

\* Two bit-strings of the backend on each of these graphs.
SiteStrings(g) ==
    IF g = cycle_graph
    THEN <<alternating, <<"0", "0", "0", "1">> >>
    ELSE << <<"0", "1", "1">>, <<"0", "0", "1">> >>

\* The answers of the backend to a readout on g in these sessions: one of the
\* two strings in one shot, the second twice and the first once, or an
\* exception.
SiteAnswers(g) ==
    {Answer(OneShot(SiteStrings(g)[1])),
     Answer(OneShot(SiteStrings(g)[2])),
     Answer([b \in {SiteStrings(g)[1], SiteStrings(g)[2]} |->
                IF b = SiteStrings(g)[2] THEN 2 ELSE 1]),
     Failure}

\* The call to make: a function of the notebook with its arguments; the
\* closure that get_QAOA_func has just handed to a cell with the angles to
\* call it with; or, after the three optimisations, the readouts of some of
\* the results, with the answer of the backend to each.
InitCalls ==
    \/ /\ Between("none", {}, Unbound, <<>>, NoResult, AllOutcomes)
       /\ \/ \E g \in Graphs : \E s \in BitStrings(NumNodes(g)) :
                input = [f |-> "maxcut_cost", graph |-> g, bitstring |-> s]
          \/ \E g \in ShotGraphs : \E c \in CountsOn(NumNodes(g)) :
                input = [f |-> "get_expval", graph |-> g, counts |-> c]
          \/ \E g \in Graphs, L \in 0..MaxLayers :
                \E gm \in GammaLists(L), bt \in BetaLists(L) :
                   input = [f |-> "Build_QAOA", graph |-> g, layers |-> L,
                            gammas |-> gm, betas |-> bt]
    \/ /\ \E sh \in ShotCounts, L \in LayerCounts :
             Between("get_QAOA_func", {get_QAOA_func(sh, L)}, Unbound,
                     <<>>, NoResult, AllOutcomes)
       /\ \E first \in {gamma_0, 1000} :
             input = [f |-> "run_QAOA", first |-> first]
    \/ /\ Between("optimize_QAOA", {}, InitialGuesses, <<Zero>>,
                  minimize_result([x |-> x0(1), fun |-> Zero], TRUE, 1),
                  AllOutcomes)
       /\ \/ \E nm \in RunNames : \E c \in ObservedCounts(pair_graph) :
                input = [f |-> "readout", graph |-> pair_graph,
                         answer |-> [n \in {nm} |-> Answer(c)]]
          \/ \E nm \in RunNames :
                \E g \in ReadoutGraphs(nm) : \E s \in BitStrings(NumNodes(g)) :
                   input = [f |-> "readout", graph |-> g,
                            answer |-> [n \in {nm} |-> Answer(OneShot(s))]]
          \/ \E g \in SiteGraphs : \E a \in [RunNames -> SiteAnswers(g)] :
                input = [f |-> "readout", graph |-> g, answer |-> a]

ApplyMaxcutCost ==
    /\ input.f = "maxcut_cost"
    /\ DoMaxcutCost(input.bitstring, input.graph)

ApplyGetExpval ==
    /\ input.f = "get_expval"
    /\ DoGetExpval(input.counts, input.graph)

ApplyBuildQAOA ==
    /\ input.f = "Build_QAOA"
    /\ DoBuildQAOA(input.graph, input.gammas, input.betas, input.layers)

\* The angles of a call by hand: the initial guess, or [1.0, 2.0, ...].
HandAngles(L, first) ==
    IF first = gamma_0 THEN x0(L) ELSE [i \in 1..(2 * L) |-> first * i]

ApplyRunQAOA ==
    /\ input.f = "run_QAOA"
    /\ \E c \in held : DoRunQAOA(c, HandAngles(c.layers, input.first))

ApplyReadout ==
    /\ input.f = "readout"
    /\ \E nm \in DOMAIN input.answer :
          TakeMostProbable(nm, input.graph, input.answer[nm])

ApplyIndices ==
    /\ input.f = "readout"
    /\ \E nm \in DOMAIN input.answer : ReverseAndSplit(nm)

NextCalls ==
    \/ ApplyMaxcutCost
    \/ ApplyGetExpval
    \/ ApplyBuildQAOA
    \/ ApplyRunQAOA
    \/ ApplyReadout
    \/ ApplyIndices

CallSpec == InitCalls /\ [][NextCalls]_vars

(* ======================= claims on the cost function =================== *)
\* The bit of vertex v in the bit-string s the backend reported.
VertexBit(s, v) == Reverse(s)[v + 1]

\* The positions of the edge list whose two endpoint bits differ.
CutEdges(s, g) ==
    {k \in 1..Len(g.edges) :
        VertexBit(s, g.edges[k][1]) # VertexBit(s, g.edges[k][2])}

\* C1: maxcut_cost returns minus the number of edges whose two endpoint bits
\* differ (-1 per cut edge, 0 per uncut edge), so the result lies in
\* [-|edges|, 0] and a smaller cost is a larger cut.
C1_CostIsMinusCutSize ==
    fn = "maxcut_cost" =>
        /\ value = -Cardinality(CutEdges(bitstring, graph))
        /\ -Len(graph.edges) <= value
        /\ value <= 0

C1_Witness ==
    /\ fn = "maxcut_cost"
    /\ Cardinality(CutEdges(bitstring, graph)) >= 1
    /\ Cardinality(CutEdges(bitstring, graph)) < Len(graph.edges)
    /\ value = -Cardinality(CutEdges(bitstring, graph))

AllIdentical(s) == \A k \in 1..Len(s) : s[k] = s[1]

\* C2: on an all-identical bit assignment (all 0 or all 1) maxcut_cost is 0,
\* whatever the graph.
C2_UniformCostsZero ==
    (fn = "maxcut_cost" /\ AllIdentical(bitstring)) => value = 0

C2_Witness ==
    /\ fn = "maxcut_cost"
    /\ AllIdentical(bitstring)
    /\ Len(bitstring) >= 2
    /\ Len(graph.edges) >= 1
    /\ value = 0

Complement(s) == [k \in 1..Len(s) |-> IF s[k] = "0" THEN "1" ELSE "0"]

Alternating == {<<"0", "1", "0", "1">>, <<"1", "0", "1", "0">>}

\* C3: the cost of a bit-string equals the cost of its bit-complement; on the
\* 4-cycle both alternating assignments cost -4 and no assignment costs less.
C3_GlobalFlipInvariant ==
    fn = "maxcut_cost" =>
        /\ value = maxcut_cost(Complement(bitstring), graph)
        /\ graph = cycle_graph => value >= -4
        /\ (graph = cycle_graph /\ bitstring \in Alternating) => value = -4

C3_Witness ==
    /\ fn = "maxcut_cost"
    /\ graph = cycle_graph
    /\ bitstring = <<"1", "0", "1", "0">>
    /\ value = -4

\* The edges that differ when vertex v reads the character at Python position
\* pos[v] of s, i.e. s[pos[v] + 1].
CutAt(s, g, pos) ==
    {k \in 1..Len(g.edges) :
        s[pos[g.edges[k][1]] + 1] # s[pos[g.edges[k][2]] + 1]}

ReversedPosition(n) == [v \in 0..(n - 1) |-> n - 1 - v]

DeclaredPosition(n) == [v \in 0..(n - 1) |-> v]

\* C4: the bit maxcut_cost uses for vertex v is the character at position
\* n-1-v of the reported bit-string of length n, for every edge endpoint.
C4_LooksUpReversedPosition ==
    fn = "maxcut_cost" =>
        value = -Cardinality(
                    CutAt(bitstring, graph, ReversedPosition(Len(bitstring))))

\* a call where reading position v instead would have given another cost
C4_Witness ==
    /\ fn = "maxcut_cost"
    /\ value = -Cardinality(
                   CutAt(bitstring, graph, ReversedPosition(Len(bitstring))))
    /\ value # -Cardinality(
                   CutAt(bitstring, graph, DeclaredPosition(Len(bitstring))))

WeightedCost(c, g) ==
    SetSum([b \in DOMAIN c |-> maxcut_cost(b, g) * c[b]], DOMAIN c)

\* C5: for a distribution with positive total count get_expval returns the
\* count-weighted average: result * (sum of counts) = sum of cost * count.
C5_ExpvalIsWeightedAverage ==
    (fn = "get_expval" /\ TotalCount(counts) > 0) =>
        /\ err = "none"
        /\ exp_value.num * TotalCount(counts)
              = exp_value.den * WeightedCost(counts, graph)

C5_Witness ==
    /\ fn = "get_expval"
    /\ err = "none"
    /\ \E b1, b2 \in DOMAIN counts :
          /\ counts[b1] > counts[b2]
          /\ counts[b2] > 0
          /\ maxcut_cost(b1, graph) # maxcut_cost(b2, graph)
    /\ exp_value.num * TotalCount(counts)
          = exp_value.den * WeightedCost(counts, graph)

(* ===================== claims on the expectation value ================= *)
\* The rational r is no less than the least and no greater than the greatest
\* cost a bit-string has on g: some bit-string costs no more than r, and some
\* costs no less.
WithinCostRange(r, g) ==
    /\ \E b \in BitStrings(NumNodes(g)) : maxcut_cost(b, g) * r.den <= r.num
    /\ \E b \in BitStrings(NumNodes(g)) : r.num <= maxcut_cost(b, g) * r.den

\* C6: what get_expval returns for a distribution of positive total lies
\* between the least and the greatest cost a bit-string has on the graph, and
\* so does every entry of the trace.
C6_ExpvalWithinCostRange ==
    /\ (fn = "get_expval" /\ TotalCount(counts) > 0) =>
          (err = "none" /\ WithinCostRange(exp_value, graph))
    /\ (pc = "evaluated" \/ (fn = "run_QAOA" /\ err = "none")) =>
          WithinCostRange(exp_value, graph)
    /\ \A i \in 1..Len(expval_list) :
          WithinCostRange(expval_list[i], cycle_graph)

\* run_QAOA has appended a proper average, which is no bit-string's cost
C6_Witness ==
    /\ fn = "run_QAOA"
    /\ err = "none"
    /\ expval_list # <<>>
    /\ exp_value = expval_list[Len(expval_list)]
    /\ \A b \in BitStrings(NumNodes(graph)) :
          maxcut_cost(b, graph) * exp_value.den # exp_value.num
    /\ WithinCostRange(exp_value, graph)

\* C7: a zero-trial evaluation is rejected with an invalid-configuration
\* error: get_expval on counts of total zero raises it, no closure is handed
\* out for zero shots, and no call ends in the division by zero.
C7_ZeroTrialRejected ==
    /\ (fn = "get_expval" /\ TotalCount(counts) = 0) =>
          err = "InvalidConfiguration"
    /\ func.shots = 0 => func = NoFunc
    /\ \A c \in held : c.shots # 0
    /\ err # "ZeroDivisionError"

(* ========================== claims on the trace ======================== *)
\* A call of optimize_QAOA is under way.
InRun == pc \in {"minimizing", "evaluated"}

\* optimize_QAOA has just returned to its cell.
Returned == pc = "toplevel" /\ fn = "optimize_QAOA" /\ err = "none"

\* An exception has just left optimize_QAOA.
Raised == pc = "toplevel" /\ fn = "optimize_QAOA" /\ err # "none"

\* C8, as claimed: the trace is cleared at the start of each run, so that
\* after any sequence of runs and objective calls it holds only values of
\* objective calls of the most recently started run: once optimize_QAOA has
\* made the latest call of get_QAOA_func, a value is appended only by a call
\* of run_QAOA that the minimizer of that run makes.
C8_TraceOfLatestRunOnly ==
    /\ []((pc = "minimizing" /\ nfev = 0) => expval_list = <<>>)
    /\ [](dropped => expval_list = <<>>)
    /\ [][(started_by = "optimize_QAOA" /\ executed' = executed + 1
              /\ err' = "none")
             => pc = "minimizing"]_vars

\* C8, amended: the trace is cleared at every call of get_QAOA_func, so at
\* the start of each run, and holds exactly the values that calls of run_QAOA
\* have returned since the most recent clear, in their order; it is empty
\* when the first vector of a run waits to be evaluated, and during a run and
\* when the run returns it has one entry for each objective call of that run
\* that has returned, and no other.  (A closure a cell obtained before the
\* run and calls after it appends to the same trace.)
C8_TraceSinceLatestClear ==
    /\ expval_list = since_clear
    /\ (pc = "minimizing" /\ nfev = 0) => expval_list = <<>>
    /\ dropped => expval_list = <<>>
    /\ InRun => Len(expval_list) = nfev
    /\ Returned => Len(expval_list) = results.nfev

\* a run has started after another had left entries in the trace, which its
\* start has removed
C8_Witness ==
    /\ dropped
    /\ pc = "minimizing"
    /\ fn = "optimize_QAOA"
    /\ nfev = 0
    /\ expval_list = <<>>

IsPrefix(s, t) == Len(s) <= Len(t) /\ SubSeq(t, 1, Len(s)) = s

\* a step in which a call of run_QAOA returns (to minimize or to a cell)
Returns == executed' = executed + 1 /\ err' = "none"

\* a step in which get_QAOA_func is called (by optimize_QAOA or by a cell)
Starts == fn' = "get_QAOA_func" \/ (pc' = "minimizing" /\ Outside)

\* a step in which the cell of expval_list = [] makes a new, empty trace
Creates == fn' = "expval_list"

\* C9: every call of run_QAOA that returns appends exactly the value it
\* returns at the end of the trace; no step but the start of a run (and the
\* creation of a new trace) removes, moves or changes an entry; the trace is
\* as long as the number of objective calls that have returned since it was
\* last cleared.
C9_TraceAppendOnly ==
    /\ [][/\ Returns => expval_list' = Append(expval_list, exp_value')
          /\ ~(Starts \/ Creates) => IsPrefix(expval_list, expval_list')
          /\ ~(Starts \/ Creates \/ Returns) =>
                expval_list' = expval_list]_vars
    /\ [](Len(expval_list) = Len(since_clear))

\* two calls of one run have returned different values
C9_Witness ==
    /\ pc = "evaluated"
    /\ Len(since_clear) = 2
    /\ Len(expval_list) = 2
    /\ expval_list[1] # expval_list[2]
    /\ exp_value = expval_list[2]

(* ======================= claims on the circuit builder ================= *)
CountOf(circuit, name) ==
    Cardinality({k \in 1..Len(circuit) : circuit[k].name = name})

\* The one-parameter gate ins turns by num/den times the angle a.
AngleIs(ins, a, num, den) ==
    /\ Len(ins.params) = 1
    /\ ins.params[1].num * den = a * num * ins.params[1].den

\* The place in the instruction list of the k-th gate (barriers are
\* directives, not gates, and are not counted).
GatePlaces(circuit) ==
    LET place[i \in 0..Len(circuit)] ==
            IF i = 0 THEN <<>>
            ELSE IF circuit[i].name = "barrier"
                 THEN place[i - 1]
                 ELSE Append(place[i - 1], i)
    IN  place[Len(circuit)]

\* C10: Build_QAOA gives, in order, one H per qubit; for each layer l one
\* block CX a,b - RZ on b, driven by gammas[l] (the rotation is by
\* 0.5*gammas[l]) - CX a,b per edge in edge order, then RX(betas[l]) on every
\* qubit; and last a measurement of every qubit.  L*|edges| cost blocks,
\* L*n mixer rotations, nothing after a measurement.
C10_CircuitLayout ==
    fn = "Build_QAOA" =>
        LET n == NumNodes(graph)
            E == Len(graph.edges)
            L == layers
            at == GatePlaces(qc)
        IN  /\ Len(at) = n + L * (3 * E + n) + n
            /\ \A q \in 0..(n - 1) :
                  qc[at[q + 1]] = Instruction("h", <<q>>, <<>>, <<>>)
            /\ \A l \in 0..(L - 1) : \A k \in 1..E :
                  LET first == n + l * (3 * E + n) + 3 * (k - 1) + 1
                      a == graph.edges[k][1]
                      b == graph.edges[k][2]
                      cx == Instruction("cx", <<a, b>>, <<>>, <<>>)
                      rz == qc[at[first + 1]]
                  IN  /\ qc[at[first]] = cx
                      /\ rz.name = "rz"
                      /\ rz.qubits = <<b>>
                      /\ AngleIs(rz, gammas[l + 1], 1, 2)
                      /\ qc[at[first + 2]] = cx
            /\ \A l \in 0..(L - 1) : \A q \in 0..(n - 1) :
                  LET rx == qc[at[n + l * (3 * E + n) + 3 * E + q + 1]]
                  IN  /\ rx.name = "rx"
                      /\ rx.qubits = <<q>>
                      /\ AngleIs(rx, betas[l + 1], 1, 1)
            /\ \A q \in 0..(n - 1) :
                  qc[at[n + L * (3 * E + n) + q + 1]]
                      = Instruction("measure", <<q>>, <<q>>, <<>>)
            /\ CountOf(qc, "rz") = L * E
            /\ CountOf(qc, "cx") = 2 * L * E
            /\ CountOf(qc, "rx") = L * n
            /\ \A i \in 1..(Len(qc) - 1) :
                  qc[i].name = "measure" => qc[i + 1].name = "measure"

\* two layers with different angles on a graph with two edges that do not
\* share their target qubit
C10_Witness ==
    /\ fn = "Build_QAOA"
    /\ layers = 2
    /\ gammas[1] # gammas[2]
    /\ betas[1] # betas[2]
    /\ gammas # betas
    /\ Len(graph.edges) = 2
    /\ graph.edges[1][2] # graph.edges[2][2]
    /\ CountOf(qc, "rz") = 4
    /\ CountOf(qc, "measure") = NumNodes(graph)

(* ========================= claims on the readout ======================= *)
ElementsOf(seq) == {seq[k] : k \in 1..Len(seq)}

\* The observed bit-strings no observed bit-string was counted more often than.
MostFrequent(c) == {s \in DOMAIN c : \A t \in DOMAIN c : c[t] <= c[s]}

\* r is s read backwards.
IsReversalOf(r, s) ==
    /\ Len(r) = Len(s)
    /\ \A k \in 1..Len(s) : r[k] = s[Len(s) + 1 - k]

\* The groups i0 and i1 are the nodes at which s has '0' and at which s has
\* '1'; they are disjoint and hold every node of s between them.
Partitions(i0, i1, s) ==
    /\ \A v \in 0..(Len(s) - 1) :
          /\ v \in ElementsOf(i0) <=> s[v + 1] = "0"
          /\ v \in ElementsOf(i1) <=> s[v + 1] = "1"
    /\ ElementsOf(i0) \cap ElementsOf(i1) = {}
    /\ ElementsOf(i0) \cup ElementsOf(i1) = 0..(Len(s) - 1)

\* C11: at each of the three readouts (of result, result_1 and result_2) the
\* solution taken is an observed bit-string of maximal count; the cell after
\* it reverses the bit order of that solution and of no other, and then node
\* v is in the first group iff position v of the reversed string is '0' and
\* in the second iff it is '1'; the groups are disjoint and hold every node
\* 0..n-1 between them.
C11_SolutionExtraction ==
    /\ [](\A nm \in RunNames :
             /\ (fn = readout_cell(nm) /\ err = "none") =>
                   solution_of(nm) \in MostFrequent(counts)
             /\ fn = indices_cell(nm) =>
                   Partitions(indices_0, indices_1, solution_of(nm)))
    /\ [][\A nm \in RunNames :
             /\ (fn = readout_cell(nm) /\ err = "none"
                   /\ fn' = indices_cell(nm))
                  => /\ \E s \in MostFrequent(counts') :
                           IsReversalOf(solution_of(nm)', s)
                     /\ Len(solution_of(nm)') = NumNodes(graph')
             /\ fn' = indices_cell(nm)
                  => /\ IsReversalOf(solution_of(nm)', solution_of(nm))
                     /\ \A other \in RunNames \ {nm} :
                           solution_of(other)' = solution_of(other)
                     /\ Partitions(indices_0', indices_1',
                                   solution_of(nm)')]_vars

\* at the readout of result_1 the more frequent of two observed strings was
\* taken, it reads differently backwards, both groups have a node, and they
\* are not the groups of the solution the readout of result has bound
C11_Witness ==
    /\ fn = indices_cell("result_1")
    /\ \E s, t \in DOMAIN counts :
          /\ counts[t] < counts[s]
          /\ IsReversalOf(most_probable_solution_1, s)
          /\ most_probable_solution_1 # s
    /\ indices_0 # <<>>
    /\ indices_1 # <<>>
    /\ most_probable_solution # <<>>
    /\ ElementsOf(indices_0)
          # ElementsOf(indices_of(most_probable_solution, "0"))

(* ===================== claims on the optimisation run ================== *)
\* What the minimizer of the run counts against maxiter: COBYLA the
\* evaluations, Powell the iterations that have ended.
CapCount == IF method = "COBYLA" THEN nfev ELSE nit

\* With the evaluation that has returned the cap is used up: it was COBYLA's
\* last evaluation, or it ended Powell's last iteration.
CapUsedUp ==
    IF method = "COBYLA" THEN nfev = iterations ELSE nit + 1 = iterations

\* C13: each step of a run is one vector and one evaluation of it: the call
\* of run_QAOA that returns was made for the vector the minimizer holds, asked
\* one execution of the backend and left one entry in the trace; a new vector
\* is proposed only once that call has returned; so the trace of a run has as
\* many entries as the run has had steps.
C13_OneEvaluationPerStep ==
    /\ [][/\ (pc = "minimizing" /\ pc' = "evaluated") =>
                /\ angles' = angles
                /\ gammas' \o betas' = angles
                /\ nfev' = nfev + 1
                /\ executed' = executed + 1
                /\ Len(expval_list') = Len(expval_list) + 1
          /\ (InRun /\ InRun' /\ angles' # angles) =>
                /\ pc = "evaluated"
                /\ pc' = "minimizing"
                /\ nfev' = nfev
                /\ executed' = executed
                /\ expval_list' = expval_list
          /\ pc = "minimizing" => pc' # "minimizing"]_vars
    /\ [](InRun => (Len(expval_list) = nfev /\ executed = nfev))
    /\ [](Returned =>
             (Len(expval_list) = results.nfev /\ executed = results.nfev))

\* the second step of a run has evaluated the vector proposed after the first
C13_Witness ==
    /\ pc = "evaluated"
    /\ nfev = 2
    /\ executed = 2
    /\ Len(expval_list) = 2
    /\ angles # x0(layers)
    /\ gammas \o betas = angles

\* C14: a minimizer that ends without having converged is no error: once the
\* cap is used up the run returns and does nothing else, the return raises
\* nothing, starts no run and evaluates nothing, and the caller gets the
\* minimizer's result as it is: the success flag, the best vector, the value
\* achieved.
C14_NonConvergenceReturned ==
    /\ [][/\ (pc = "evaluated" /\ method = "COBYLA" /\ CapUsedUp) =>
                pc' = "toplevel"
          /\ (pc = "evaluated" /\ pc' = "toplevel") =>
                /\ results'.x = best.x
                /\ results'.fun = best.fun
                /\ results'.nfev = nfev
                /\ ~results'.success => CapUsedUp
                /\ Len(results'.x) = 2 * func.layers
                /\ err' = "none"
                /\ func' = NoFunc
                /\ executed' = executed
                /\ expval_list' = expval_list]_vars
    /\ [](Returned =>
             /\ \E k \in 1..Len(expval_list) : expval_list[k] = results.fun
             /\ \A k \in 1..Len(expval_list) :
                   ~RatLess(expval_list[k], results.fun))

\* a run has returned unconverged with the initial guess as its best vector,
\* the later evaluation having given a greater value
C14_Witness ==
    /\ Returned
    /\ ~results.success
    /\ results.x \in {x0(layers_of(nm)) : nm \in RunNames}
    /\ Len(expval_list) = 2
    /\ results.fun = expval_list[1]
    /\ RatLess(results.fun, expval_list[2])

(* ==================== claims on the bit-order reversal ================= *)
\* How often bit occurs in s.
Occurrences(s, bit) == Cardinality({k \in 1..Len(s) : s[k] = bit})

\* Reversing s keeps its length and its numbers of 0s and 1s, and reversing
\* the result gives s again.
RoundTrips(s) ==
    /\ Len(Reverse(s)) = Len(s)
    /\ Occurrences(Reverse(s), "0") = Occurrences(s, "0")
    /\ Occurrences(Reverse(s), "1") = Occurrences(s, "1")
    /\ Reverse(Reverse(s)) = s

\* C15: reversing a bit-string twice, as maxcut_cost and the readout reverse
\* it, gives the bit-string back, and the reversal keeps the length and the
\* numbers of 0s and 1s; reversing the solution the readout shows gives the
\* bit-string the backend reported.
C15_ReversalRoundTrips ==
    /\ [](fn = "maxcut_cost" => RoundTrips(bitstring))
    /\ [](fn \in {"most_probable_solution", "indices"} =>
             /\ RoundTrips(most_probable_solution)
             /\ readout_reverse(readout_reverse(most_probable_solution))
                   = most_probable_solution)
    /\ [][/\ fn' = "indices" =>
                readout_reverse(most_probable_solution')
                    = most_probable_solution
          /\ (fn = "most_probable_solution" /\ err = "none"
                 /\ fn' = "indices") =>
                readout_reverse(most_probable_solution')
                    \in MostFrequent(counts')]_vars

\* the readout has reversed a string of three or more bits that reads
\* differently backwards
C15_Witness ==
    /\ fn = "indices"
    /\ Len(most_probable_solution) >= 3
    /\ readout_reverse(most_probable_solution) # most_probable_solution
    /\ readout_reverse(most_probable_solution) \in DOMAIN counts
    /\ RoundTrips(most_probable_solution)

(* ==================== claims on the parameter vector =================== *)
\* Layer l (from 0) of the circuit built for graph g with L layers turns by
\* gamma/2 in every cost block and by beta in every mixer rotation.
LayerUses(circuit, g, L, l, gamma, beta) ==
    LET n == NumNodes(g)
        E == Len(g.edges)
        at == GatePlaces(circuit)
        start == n + l * (3 * E + n)
    IN  /\ Len(at) = n + L * (3 * E + n) + n
        /\ \A k \in 1..E :
              LET rz == circuit[at[start + 3 * (k - 1) + 2]]
              IN  rz.name = "rz" /\ AngleIs(rz, gamma, 1, 2)
        /\ \A q \in 1..n :
              LET rx == circuit[at[start + 3 * E + q]]
              IN  rx.name = "rx" /\ AngleIs(rx, beta, 1, 1)

\* C16: the parameter vector has 2L entries, L cost angles then L mixer
\* angles: x0 has 2L entries; run_QAOA takes gammas = angles[0..L-1] and
\* betas = angles[L..2L-1], splitting gammas ++ betas gives the two back, and
\* layer l of the circuit it builds takes angles[l] as its cost angle and
\* angles[L+l] as its mixer angle.
C16_ParameterVectorSplit ==
    /\ InRun =>
          /\ Len(x0(func.layers)) = 2 * func.layers
          /\ Len(angles) = 2 * func.layers
          /\ nfev = 0 => angles = x0(func.layers)
    /\ pc = "evaluated" =>
          /\ layers = func.layers
          /\ Len(gammas) = layers
          /\ Len(betas) = layers
          /\ gammas \o betas = angles
          /\ SliceTo(gammas \o betas, layers) = gammas
          /\ SliceFrom(gammas \o betas, layers) = betas
          /\ \A l \in 0..(layers - 1) :
                /\ gammas[l + 1] = angles[l + 1]
                /\ betas[l + 1] = angles[layers + l + 1]
                /\ LayerUses(qc, graph, layers, l,
                             angles[l + 1], angles[layers + l + 1])

\* a vector of different angles has been split for the circuit of num_layers
\* layers
C16_Witness ==
    /\ pc = "evaluated"
    /\ layers = num_layers
    /\ layers >= 2
    /\ Cardinality(ElementsOf(angles)) = 2 * layers
    /\ gammas = SubSeq(angles, 1, layers)
    /\ betas = SubSeq(angles, layers + 1, 2 * layers)
    /\ LayerUses(qc, graph, layers, 1, angles[2], angles[layers + 2])

(* ============ claims on the readout and the cost function ============== *)
\* The positions of the edge list of g with one endpoint in the group i0 and
\* the other in the group i1.
CrossEdges(i0, i1, g) ==
    {k \in 1..Len(g.edges) :
        LET a == g.edges[k][1]
            b == g.edges[k][2]
        IN  \/ a \in ElementsOf(i0) /\ b \in ElementsOf(i1)
            \/ a \in ElementsOf(i1) /\ b \in ElementsOf(i0)}

\* C17: the readout and the cost function read the bit-string the same way:
\* at each of the three readouts, the two groups extracted from the solution
\* s of that readout have as many edges of the graph between them as
\* -maxcut_cost(s, graph).
C17_ReadoutMatchesCost ==
    [][\A nm \in RunNames :
          fn' = indices_cell(nm) =>
             Cardinality(CrossEdges(indices_0', indices_1', graph))
                 = -maxcut_cost(solution_of(nm), graph)]_vars

\* the groups extracted at the readout of result cut as many edges as
\* -maxcut_cost of its string, the groups of that string read unreversed
\* would not, and neither would the groups of the solution the readout of
\* result_1 has bound
C17_Witness ==
    /\ fn = indices_cell("result")
    /\ most_probable_solution_1 # <<>>
    /\ LET s == readout_reverse(most_probable_solution)
           cut == -maxcut_cost(s, graph)
       IN  /\ Cardinality(CrossEdges(indices_0, indices_1, graph)) = cut
           /\ Cardinality(CrossEdges(indices_of(s, "0"), indices_of(s, "1"),
                                     graph)) # cut
           /\ Cardinality(CrossEdges(
                  indices_of(most_probable_solution_1, "0"),
                  indices_of(most_probable_solution_1, "1"), graph)) # cut

(* ===================== claims on what changes the trace ================ *)
\* C18: a call of run_QAOA that raises, in the execution of the circuit or in
\* get_expval, appends nothing: the trace after it is the trace before it.
\* The trace changes only when a run starts (clear) and when run_QAOA returns
\* (append); the calls of maxcut_cost, get_expval and Build_QAOA and the
\* cells of the readout leave it as it is.
C18_FailedCallLeavesTrace ==
    [][/\ (pc = "minimizing" /\ pc' = "toplevel") => err' # "none"
       /\ (executed' = executed + 1 /\ err' # "none") =>
             expval_list' = expval_list
       /\ expval_list' # expval_list => (Starts \/ Creates \/ Returns)
       /\ fn' \in {"maxcut_cost", "get_expval", "Build_QAOA",
                   "most_probable_solution", "indices"} =>
             expval_list' = expval_list]_vars

\* the circuit execution of a call has failed after earlier calls of the run
\* had returned, and their entries are all there
C18_Witness ==
    /\ Raised
    /\ err = "BackendError"
    /\ expval_list # <<>>
    /\ expval_list = since_clear
    /\ executed = Len(expval_list) + 1

====
